---- MODULE Spec2Model ----
(***************************************************************************)
(* A model of src/lru/lru.go: the LRU cache with per-entry expiration,     *)
(* eviction callbacks and the watchDog goroutine that sweeps expired       *)
(* entries.                                                                *)
(*                                                                         *)
(* A goroutine runs the methods of Cache statement by statement: one       *)
(* action per access to the shared fields c.dl and c.cache, labelled by    *)
(* method and source line.  c.lock.Lock() is taken together with the       *)
(* access that follows it and the deferred Unlock together with the return *)
(* (an acquire commutes to the right and a release to the left of the      *)
(* other goroutines' steps); statements that touch only locals, or an      *)
(* entry reached through a pointer obtained under the lock, are folded     *)
(* into the neighbouring step.  The arguments of a call are drawn at the   *)
(* step that first reads them.                                             *)
(*                                                                         *)
(* Spec is one caller calling every method in turn on the keys, values and *)
(* durations below; Conc is two callers and the watchDog interleaved on a  *)
(* single key; Halt is one caller and the watchDog under fair scheduling,  *)
(* with the stop signal; Reload is one caller whose eviction callbacks     *)
(* call Add on the cache they were evicted from.                           *)
(***************************************************************************)
EXTENDS Integers, Sequences, FiniteSets, TLC

(* ---------------------------------------------------------------- bounds *)
Keys == {"A", "B", "C"}
Values == {1, 2}
\* The durations passed to AddEx / AddExWithOnEvicted (Add passes -1).
TTLs == {0, 1}
\* The clock runs from 1 to MaxTime.
MaxTime == 3
\* The number of distinct callbacks handed to AddExWithOnEvicted.
MaxCb == 2
\* New(2, ...) in TestLru.
MaxEntries == 2

\* The calls started in one run.
MaxCalls == 4

\* What the interleaved goroutines of Conc work on.
ConcKeys == {"A"}
ConcValues == {1}
ConcTTLs == {1}
ConcCalls == 4

Caller == "c1"
Callers == {"c1", "c2"}
Dog == "dog"
Procs == Callers \cup {Dog}

NIL == "nil"
Free == "free"
NoCb == 0

AddOps == {"Add", "AddEx", "AddExWithOnEvicted"}
Ops == AddOps \cup {"Get", "Remove", "RemoveOldest", "DeleteExpired", "Len", "Clear"}
ConcOps == {"AddEx", "Get", "Remove", "RemoveOldest", "Len", "Clear"}

(* ----------------------------------------------------------------- state *)
VARIABLES
    dl,      \* c.dl: nil or the list of entries, front (most recent) first
    cache,   \* c.cache: nil or the map key -> entry of the element it points to
    lock,    \* c.lock: Free or the goroutine holding it
    now,     \* time.Now().UnixNano()
    pc,      \* each goroutine's position
    local,   \* each goroutine's locals
    fired,   \* per callback, the (key, value) pairs it was invoked with
    ncb,     \* callbacks created so far
    calls,   \* calls started so far
    stop     \* dog.stop: "empty", "sending" (a sender blocked on it), "received"

vars == <<dl, cache, lock, now, pc, local, fired, ncb, calls, stop>>

\* type entry struct
entry(k, v, e, cb) == [key |-> k, value |-> v, Expiration |-> e, OnEvicted |-> cb]

\* No element (a nil *list.Element); its value is the zero value.
NoEntry == entry(NIL, 0, 0, NoCb)

\* The locals of a goroutine outside a call.
\* Beside the locals of the methods: what the call found and did, for the
\* properties below (wasNil: the store was nil when the call first looked;
\* before, fired0: c.dl and the callbacks' invocations when the call began its
\* work; gone: the entries a sweep removed; nested: the callback the goroutine
\* is running has called back into the cache).
Idle == [op |-> "", key |-> NIL, value |-> 0, onEvicted |-> NoCb,
         ele |-> NoEntry, hit |-> FALSE, ok |-> FALSE, ret |-> "", inAdd |-> FALSE,
         t |-> 0, n |-> 0, count |-> 0, examined |-> 0, todo |-> {},
         wasNil |-> FALSE, before |-> <<>>, fired0 |-> <<>>, gone |-> {},
         nested |-> FALSE, err |-> ""]

(* ------------------------------------------------- container/list, map *)
\* A *list.List is nil or a list; a map is nil or a map.
NilList == [nil |-> TRUE, items |-> <<>>]
\* list.New()
NewList == [nil |-> FALSE, items |-> <<>>]
NilMap == [nil |-> TRUE, m |-> <<>>]
\* make(map[interface{}]*list.Element)
NewMap == [nil |-> FALSE, m |-> <<>>]

Index(s, k) == CHOOSE i \in 1..Len(s) : s[i].key = k
Has(s, k) == \E i \in 1..Len(s) : s[i].key = k
Without(s, k) == SelectSeq(s, LAMBDA x : x.key # k)

\* list.PushFront on a list that is not nil
PushFront(l, x) == [l EXCEPT !.items = <<x>> \o l.items]

\* list.MoveToFront: a no-op on an element of another list (e.list != l, which
\* a nil l always is) and on the front element
MoveToFront(l, k) ==
    IF l.nil \/ ~Has(l.items, k) THEN l
    ELSE [l EXCEPT !.items = <<l.items[Index(l.items, k)]>> \o Without(l.items, k)]

\* list.Remove: a no-op on an element of another list
ListRemove(l, k) == IF l.nil THEN l ELSE [l EXCEPT !.items = Without(l.items, k)]

\* list.Back on a list that is not nil
Back(l) == IF Len(l.items) = 0 THEN NoEntry ELSE l.items[Len(l.items)]

\* m[k] with the comma-ok form; a nil map has no keys
Lookup(m, k) == ~m.nil /\ k \in DOMAIN m.m

\* delete(m, k): a no-op on a nil map
Delete(m, k) ==
    IF m.nil THEN m ELSE [m EXCEPT !.m = [x \in DOMAIN m.m \ {k} |-> m.m[x]]]

\* m[k] = x on a map that is not nil
MapPut(m, k, x) ==
    [m EXCEPT !.m = [y \in DOMAIN m.m \cup {k} |-> IF y = k THEN x ELSE m.m[y]]]

Range(f) == {f[x] : x \in DOMAIN f}

\* The entry an element points to, rewritten where the list and the map hold it.
SetInList(l, k, x) ==
    IF l.nil THEN l
    ELSE [l EXCEPT !.items = [i \in 1..Len(l.items) |->
                                 IF l.items[i].key = k THEN x ELSE l.items[i]]]
SetInMap(m, k, x) ==
    IF Lookup(m, k) THEN [m EXCEPT !.m[k] = x] ELSE m

(* -------------------------------------------------------- entry.Expired *)
ExpiredNever(e, t) == FALSE
Expired(e, t) == IF e.Expiration = 0 THEN FALSE ELSE t > e.Expiration

(* ----------------------------------------------------------- the steps *)
Alive == \A q \in Procs : pc[q] # "panic"

At(p, l) == Alive /\ pc[p] = l

Goto(p, l) == pc' = [pc EXCEPT ![p] = l]

Set(p, r) == local' = [local EXCEPT ![p] = r]

\* A deferred c.lock.Unlock() runs when the method returns or panics.
Unlocked(p) == IF lock = p THEN Free ELSE lock

\* The call returns: its result stays in the locals until the caller moves on.
Return(p, r) ==
    /\ pc' = [pc EXCEPT ![p] = "done"]
    /\ local' = [local EXCEPT ![p] = r]
    /\ lock' = Unlocked(p)

\* A run-time panic: deferred unlocks run, then the program dies.
Panic(p, why) ==
    /\ pc' = [pc EXCEPT ![p] = "panic"]
    /\ local' = [local EXCEPT ![p] = [local[p] EXCEPT !.err = why]]
    /\ lock' = Unlocked(p)

\* c.lock.Lock()
Lock(p, l) ==
    /\ lock = Free
    /\ lock' = p
    /\ Goto(p, l)

\* A caller starts a call of a public method.
Call(p, ops, max) ==
    /\ At(p, "idle")
    /\ calls < max
    /\ calls' = calls + 1
    /\ \E op \in ops :
         /\ op = "AddExWithOnEvicted" => ncb < MaxCb
         /\ ncb' = IF op = "AddExWithOnEvicted" THEN ncb + 1 ELSE ncb
         /\ Set(p, [Idle EXCEPT !.op = op, !.fired0 = fired,
                     !.onEvicted = IF op = "AddExWithOnEvicted" THEN ncb + 1 ELSE NoCb,
                     !.ret = CASE op = "Len" -> "done"
                               [] op = "DeleteExpired" -> "de145"
                               [] OTHER -> ""])
         /\ Goto(p, CASE op \in AddOps -> "add65"
                      [] op = "Get" -> "get90"
                      [] op = "Remove" -> "rm113"
                      [] op = "RemoveOldest" -> "rmo124"
                      [] op \in {"DeleteExpired", "Len"} -> "len166"
                      [] op = "Clear" -> "clr173")
    /\ UNCHANGED <<dl, cache, lock, now, fired, stop>>

\* The caller takes the result; the goroutine is free to start another call.
Done(p) ==
    /\ At(p, "done")
    /\ Goto(p, "idle")
    /\ Set(p, Idle)
    /\ UNCHANGED <<dl, cache, lock, now, fired, ncb, calls, stop>>

\* time passes
Tick ==
    /\ Alive
    /\ now < MaxTime
    /\ now' = now + 1
    /\ UNCHANGED <<dl, cache, lock, pc, local, fired, ncb, calls, stop>>

(* ------------------------------------------------------------ Cache.add *)
\* lines 65-68: the lock and the test c.cache == nil
add65(p) ==
    /\ At(p, "add65")
    /\ Lock(p, IF cache.nil THEN "add69" ELSE "add72")
    /\ Set(p, [local[p] EXCEPT !.wasNil = cache.nil])
    /\ UNCHANGED <<dl, cache, now, fired, ncb, calls, stop>>

add69(p) ==
    /\ At(p, "add69")
    /\ cache' = NewMap
    /\ Goto(p, "add70")
    /\ UNCHANGED <<dl, lock, now, local, fired, ncb, calls, stop>>

add70(p) ==
    /\ At(p, "add70")
    /\ dl' = NewList
    /\ Goto(p, "add72")
    /\ UNCHANGED <<cache, lock, now, local, fired, ncb, calls, stop>>

ExpirationAlways(d, t) == t + d
\* lines 67, 72-74: the expiration add computes from d
ExpirationOf(d, t) == IF d > 0 THEN t + d ELSE 0

\* The durations a method passes to add: Add passes -1 (line 53).
Durations(op, D) == IF op = "Add" THEN {-1} ELSE D

\* line 75: the lookup of key
add72(p, K) ==
    /\ At(p, "add72")
    /\ \E k \in K :
         /\ Set(p, [local[p] EXCEPT !.key = k, !.hit = Lookup(cache, k),
                     !.ele = IF Lookup(cache, k) THEN cache.m[k] ELSE NoEntry])
         /\ Goto(p, IF Lookup(cache, k) THEN "add76" ELSE "add82")
    /\ UNCHANGED <<dl, cache, lock, now, fired, ncb, calls, stop>>

UpdatedDropCallback(old, v, e) == entry(old.key, v, e, NoCb)
UpdatedKeepExpiration(old, v, e) == entry(old.key, v, old.Expiration, old.OnEvicted)
UpdatedKeepValue(old, v, e) == entry(old.key, old.value, e, old.OnEvicted)
\* lines 78-79: the entry after item.value = value; item.Expiration = e
Updated(old, v, e) == entry(old.key, v, e, old.OnEvicted)

add76Attaches(p, V, D) ==
    /\ At(p, "add76")
    /\ \E v \in V, d \in Durations(local[p].op, D) :
         LET x == entry(local[p].key, v, ExpirationOf(d, now), local[p].onEvicted) IN
         /\ dl' = SetInList(MoveToFront(dl, local[p].key), local[p].key, x)
         /\ cache' = SetInMap(cache, local[p].key, x)
         /\ Return(p, [local[p] EXCEPT !.value = v, !.t = now, !.n = d,
                                       !.before = dl.items])
    /\ UNCHANGED <<now, fired, ncb, calls, stop>>

\* lines 76-80: the element moves to the front and its entry is overwritten
\* through the pointer
add76(p, V, D) ==
    /\ At(p, "add76")
    /\ \E v \in V, d \in Durations(local[p].op, D) :
         LET x == Updated(local[p].ele, v, ExpirationOf(d, now)) IN
         /\ dl' = SetInList(MoveToFront(dl, local[p].key), local[p].key, x)
         /\ cache' = SetInMap(cache, local[p].key, x)
         /\ Return(p, [local[p] EXCEPT !.value = v, !.t = now, !.n = d,
                                       !.before = dl.items])
    /\ UNCHANGED <<now, fired, ncb, calls, stop>>

\* line 82: c.dl.PushFront(&entry{key, value, e, onEvicted})
add82(p, V, D) ==
    /\ At(p, "add82")
    /\ IF dl.nil
       THEN Panic(p, "nil list") /\ dl' = dl
       ELSE /\ \E v \in V, d \in Durations(local[p].op, D) :
                 LET x == entry(local[p].key, v, ExpirationOf(d, now),
                                local[p].onEvicted) IN
                 /\ dl' = PushFront(dl, x)
                 /\ Set(p, [local[p] EXCEPT !.ele = x, !.value = v, !.t = now,
                                             !.n = d, !.before = dl.items])
            /\ Goto(p, "add83")
            /\ lock' = lock
    /\ UNCHANGED <<cache, now, fired, ncb, calls, stop>>

\* line 83: c.cache[key] = ele
add83(p) ==
    /\ At(p, "add83")
    /\ IF cache.nil
       THEN Panic(p, "nil map") /\ cache' = cache
       ELSE /\ cache' = MapPut(cache, local[p].key, local[p].ele)
            /\ Goto(p, "add84")
            /\ UNCHANGED <<local, lock>>
    /\ UNCHANGED <<dl, now, fired, ncb, calls, stop>>

\* line 84: c.MaxEntries != 0 && c.dl.Len() > c.MaxEntries
Over(n) == MaxEntries # 0 /\ n > MaxEntries

add84(p) ==
    /\ At(p, "add84")
    /\ IF MaxEntries # 0 /\ dl.nil
       THEN Panic(p, "nil list")
       ELSE IF Over(Len(dl.items))
            THEN /\ Goto(p, "rmo124")
                 /\ Set(p, [local[p] EXCEPT !.inAdd = TRUE])
                 /\ lock' = lock
            ELSE Return(p, local[p])
    /\ UNCHANGED <<dl, cache, now, fired, ncb, calls, stop>>

(* ------------------------------------------------- Cache.removeElement *)
\* line 136: c.dl.Remove(e)
rem136(p) ==
    /\ At(p, "rem136")
    /\ dl' = ListRemove(dl, local[p].ele.key)
    /\ Goto(p, "rem138")
    /\ UNCHANGED <<cache, lock, now, local, fired, ncb, calls, stop>>

InvokeNever(f, kv) == f
\* lines 139-142: the callback, when there is one, is called with (key, value)
Invoke(f, kv) ==
    IF kv.OnEvicted = NoCb THEN f
    ELSE [f EXCEPT ![kv.OnEvicted] = Append(@, <<kv.key, kv.value>>)]

\* lines 138-142: delete(c.cache, kv.key) and the callback
rem138(p) ==
    /\ At(p, "rem138")
    /\ cache' = Delete(cache, local[p].ele.key)
    /\ fired' = Invoke(fired, local[p].ele)
    /\ Set(p, [local[p] EXCEPT !.gone = @ \cup {local[p].ele}])
    /\ Goto(p, "rem143")
    /\ UNCHANGED <<dl, lock, now, ncb, calls, stop>>

\* line 143: removeElement returns to Get, to the loop of DeleteExpired, or to
\* Remove and RemoveOldest, which return
rem143(p) ==
    /\ At(p, "rem143")
    /\ IF local[p].ret = "return"
       THEN Return(p, local[p])
       ELSE Goto(p, local[p].ret) /\ UNCHANGED <<local, lock>>
    /\ UNCHANGED <<dl, cache, now, fired, ncb, calls, stop>>

\* line 141, for a callback whose body calls c.Add(key, v) on the same cache:
\* the call starts at line 65 in the goroutine that is running removeElement,
\* with the lock that goroutine took still held.
cb141(p) ==
    /\ At(p, "rem143")
    /\ local[p].ele.OnEvicted # NoCb
    /\ ~local[p].nested
    /\ Set(p, [local[p] EXCEPT !.nested = TRUE])
    /\ Goto(p, "add65")
    /\ UNCHANGED <<dl, cache, lock, now, fired, ncb, calls, stop>>

(* --------------------------------------------------- Cache.RemoveOldest *)
\* lines 124-126; called from add (line 85) the return is add's return too
rmo124(p) ==
    /\ At(p, "rmo124")
    /\ IF cache.nil
       THEN Return(p, [local[p] EXCEPT !.wasNil = TRUE])
       ELSE Goto(p, "rmo127") /\ UNCHANGED <<local, lock>>
    /\ UNCHANGED <<dl, cache, now, fired, ncb, calls, stop>>

\* lines 127-132: the lock (which a call from add waits for while holding it),
\* c.dl.Back() and the removal
rmo127(p) ==
    /\ At(p, "rmo127")
    /\ lock = Free
    /\ IF dl.nil
       THEN Panic(p, "nil list")
       ELSE IF Back(dl) = NoEntry
            THEN Return(p, local[p])
            ELSE /\ Set(p, [local[p] EXCEPT !.ele = Back(dl), !.hit = TRUE,
                                            !.ret = "return", !.before = dl.items])
                 /\ Goto(p, "rem136")
                 /\ lock' = p
    /\ UNCHANGED <<dl, cache, now, fired, ncb, calls, stop>>

(* ------------------------------------------------------------ Cache.Get *)
\* lines 90-92
get90(p) ==
    /\ At(p, "get90")
    /\ IF cache.nil
       THEN Return(p, [local[p] EXCEPT !.wasNil = TRUE])
       ELSE Goto(p, "get93") /\ UNCHANGED <<local, lock>>
    /\ UNCHANGED <<dl, cache, now, fired, ncb, calls, stop>>

\* lines 93-97: the lock, the lookup and v.Expired()
get93(p, K) ==
    /\ At(p, "get93")
    /\ lock = Free
    /\ \E k \in K :
         IF Lookup(cache, k)
         THEN /\ Set(p, [local[p] EXCEPT !.key = k, !.hit = TRUE, !.t = now,
                                         !.ele = cache.m[k], !.ret = "get100",
                                         !.before = dl.items])
              /\ Goto(p, IF Expired(cache.m[k], now) THEN "rem136" ELSE "get106")
              /\ lock' = p
         ELSE Return(p, [local[p] EXCEPT !.key = k, !.t = now, !.before = dl.items])
    /\ UNCHANGED <<dl, cache, now, fired, ncb, calls, stop>>

\* lines 100-104: the second lookup after the removal
get100(p) ==
    /\ At(p, "get100")
    /\ IF Lookup(cache, local[p].key)
       THEN Return(p, [local[p] EXCEPT !.ok = TRUE,
                                       !.value = cache.m[local[p].key].value])
       ELSE Return(p, local[p])
    /\ UNCHANGED <<dl, cache, now, fired, ncb, calls, stop>>

\* lines 106-107
get106(p) ==
    /\ At(p, "get106")
    /\ dl' = MoveToFront(dl, local[p].key)
    /\ Return(p, [local[p] EXCEPT !.ok = TRUE, !.value = local[p].ele.value])
    /\ UNCHANGED <<cache, now, fired, ncb, calls, stop>>

(* --------------------------------------------------------- Cache.Remove *)
rm113(p) ==
    /\ At(p, "rm113")
    /\ IF cache.nil
       THEN Return(p, [local[p] EXCEPT !.wasNil = TRUE])
       ELSE Goto(p, "rm116") /\ UNCHANGED <<local, lock>>
    /\ UNCHANGED <<dl, cache, now, fired, ncb, calls, stop>>

rm116Evicts(p, K) ==
    /\ At(p, "rm116")
    /\ lock = Free
    /\ \E k \in K :
         IF Lookup(cache, k) \/ Back(dl) # NoEntry
         THEN /\ Set(p, [local[p] EXCEPT !.key = k, !.hit = Lookup(cache, k),
                                         !.ele = IF Lookup(cache, k) THEN cache.m[k]
                                                 ELSE Back(dl),
                                         !.ret = "return", !.before = dl.items])
              /\ Goto(p, "rem136")
              /\ lock' = p
         ELSE Return(p, [local[p] EXCEPT !.key = k, !.before = dl.items])
    /\ UNCHANGED <<dl, cache, now, fired, ncb, calls, stop>>

\* lines 116-120
rm116(p, K) ==
    /\ At(p, "rm116")
    /\ lock = Free
    /\ \E k \in K :
         IF Lookup(cache, k)
         THEN /\ Set(p, [local[p] EXCEPT !.key = k, !.hit = TRUE,
                                         !.ele = cache.m[k], !.ret = "return",
                                         !.before = dl.items])
              /\ Goto(p, "rem136")
              /\ lock' = p
         ELSE Return(p, [local[p] EXCEPT !.key = k, !.before = dl.items])
    /\ UNCHANGED <<dl, cache, now, fired, ncb, calls, stop>>

(* ------------------------------------------------------------ Cache.Len *)
\* line 152: rand.Intn(n) + 1, for n > 0
Draw(n) == 1..n

\* Len returns n to its caller: a public call (line 165), DeleteExpired's test
\* (line 145) or its draw of count (line 152).
LenReturn(p, ret, n) ==
    CASE ret = "done" -> Return(p, [local[p] EXCEPT !.n = n])
      [] ret = "de145" ->
            IF n = 0
            THEN Return(p, [local[p] EXCEPT !.n = n])
            ELSE Goto(p, "de148") /\ UNCHANGED <<local, lock>>
      [] ret = "de152" ->
            IF n = 0
            THEN Panic(p, "Intn")
            ELSE /\ \E c \in Draw(n) :
                      Set(p, [local[p] EXCEPT !.n = n, !.count = c])
                 /\ Goto(p, "de153")
                 /\ lock' = p

\* line 166
len166(p) ==
    /\ At(p, "len166")
    /\ IF cache.nil
       THEN LenReturn(p, local[p].ret, 0)
       ELSE Goto(p, "len169") /\ UNCHANGED <<local, lock>>
    /\ UNCHANGED <<dl, cache, now, fired, ncb, calls, stop>>

\* line 169
len169(p) ==
    /\ At(p, "len169")
    /\ IF dl.nil
       THEN Panic(p, "nil list")
       ELSE LenReturn(p, local[p].ret, Len(dl.items))
    /\ UNCHANGED <<dl, cache, now, fired, ncb, calls, stop>>

(* -------------------------------------------------- Cache.DeleteExpired *)
\* A call starts at line 145, the call of Len.
\* lines 148-152: the lock, now, and the test c.cache == nil of the second Len
de148(p) ==
    /\ At(p, "de148")
    /\ lock = Free
    /\ IF cache.nil
       THEN LenReturn(p, "de152", 0)
       ELSE /\ Set(p, [local[p] EXCEPT !.t = now, !.ret = "de152"])
            /\ Goto(p, "len169")
            /\ lock' = p
    /\ UNCHANGED <<dl, cache, now, fired, ncb, calls, stop>>

\* line 153: range c.cache (a nil map has nothing to range over)
de153(p) ==
    /\ At(p, "de153")
    /\ Set(p, [local[p] EXCEPT !.todo = IF cache.nil THEN {} ELSE Range(cache.m),
                               !.before = dl.items])
    /\ Goto(p, "de154")
    /\ UNCHANGED <<dl, cache, lock, now, fired, ncb, calls, stop>>

SweepsAnyPast(kv, t) == t > kv.Expiration
SweepsNever(kv, t) == FALSE
\* line 159
Sweeps(kv, t) == kv.Expiration > 0 /\ t > kv.Expiration

\* lines 153-162: one round of the loop
de154(p) ==
    /\ At(p, "de154")
    /\ IF local[p].todo = {} \/ local[p].count = 0
       THEN Return(p, local[p])
       ELSE \E v \in local[p].todo :
              /\ Set(p, [local[p] EXCEPT !.todo = @ \ {v}, !.count = @ - 1,
                                         !.examined = @ + 1, !.ele = v,
                                         !.ret = "de154"])
              /\ Goto(p, IF Sweeps(v, local[p].t) THEN "rem136" ELSE "de154")
              /\ lock' = lock
    /\ UNCHANGED <<dl, cache, now, fired, ncb, calls, stop>>

(* ---------------------------------------------------------- Cache.Clear *)
\* line 173: c.dl = nil
clr173(p) ==
    /\ At(p, "clr173")
    /\ dl' = NilList
    /\ Goto(p, "clr174")
    /\ UNCHANGED <<cache, lock, now, local, fired, ncb, calls, stop>>

clr174KeepsMap(p) ==
    /\ At(p, "clr174")
    /\ Return(p, local[p])
    /\ UNCHANGED <<dl, cache, now, fired, ncb, calls, stop>>
\* line 174: c.cache = nil, and Clear returns
clr174(p) ==
    /\ At(p, "clr174")
    /\ cache' = NilMap
    /\ Return(p, local[p])
    /\ UNCHANGED <<dl, now, fired, ncb, calls, stop>>

(* ------------------------------------------------------------- watchDog *)
\* line 186: the ticker fires and run calls c.DeleteExpired()
run186(p) ==
    /\ p = Dog
    /\ At(p, "idle")
    /\ calls < ConcCalls
    /\ calls' = calls + 1
    /\ Set(p, [Idle EXCEPT !.op = "DeleteExpired", !.ret = "de145"])
    /\ Goto(p, "len166")
    /\ UNCHANGED <<dl, cache, lock, now, fired, ncb, stop>>

\* line 188: run receives from dog.stop and returns
run188(p) ==
    /\ p = Dog
    /\ At(p, "idle")
    /\ stop = "sending"
    /\ stop' = "received"
    /\ Goto(p, "stopped")
    /\ UNCHANGED <<dl, cache, lock, now, local, fired, ncb, calls>>

\* line 196: c.WatchDog.stop <- true blocks until run receives
stopWatchDog ==
    /\ Alive
    /\ stop = "empty"
    /\ stop' = "sending"
    /\ UNCHANGED <<dl, cache, lock, now, pc, local, fired, ncb, calls>>

(* ------------------------------------------------------- specification *)
\* New(MaxEntries, interval)
Init ==
    /\ dl = NewList
    /\ cache = NewMap
    /\ lock = Free
    /\ now = 1
    /\ pc = [p \in Procs |-> "idle"]
    /\ local = [p \in Procs |-> Idle]
    /\ fired = [c \in 1..MaxCb |-> <<>>]
    /\ ncb = 0
    /\ calls = 0
    /\ stop = "empty"

\* The statements of the methods, for goroutine p on keys K, values V, durations D.
Step(p, K, V, D) ==
    \/ add65(p) \/ add69(p) \/ add70(p) \/ add72(p, K)
    \/ add76(p, V, D) \/ add82(p, V, D) \/ add83(p) \/ add84(p)
    \/ rem136(p) \/ rem138(p) \/ rem143(p)
    \/ rmo124(p) \/ rmo127(p)
    \/ get90(p) \/ get93(p, K) \/ get100(p) \/ get106(p)
    \/ rm113(p) \/ rm116(p, K)
    \/ len166(p) \/ len169(p)
    \/ de148(p) \/ de153(p) \/ de154(p)
    \/ clr173(p) \/ clr174(p)
    \/ Done(p)

Next ==
    \/ Tick
    \/ Call(Caller, Ops, MaxCalls)
    \/ Step(Caller, Keys, Values, TTLs)

Spec == Init /\ [][Next]_vars

ConcNext ==
    \/ Tick
    \/ stopWatchDog
    \/ \E p \in Callers : Call(p, ConcOps, ConcCalls)
    \/ \E p \in Procs : Step(p, ConcKeys, ConcValues, ConcTTLs)
    \/ run186(Dog)
    \/ run188(Dog)

Conc == Init /\ [][ConcNext]_vars

\* One caller and the watchDog, which runs until it is told to stop.
HaltNext ==
    \/ Tick
    \/ stopWatchDog
    \/ Call(Caller, ConcOps, ConcCalls)
    \/ \E p \in {Caller, Dog} : Step(p, ConcKeys, ConcValues, ConcTTLs)
    \/ run186(Dog)
    \/ run188(Dog)

\* The scheduler lets every goroutine that can take a step take one, and a
\* select with the stop channel ready again and again takes that case.
HaltFair ==
    /\ \A p \in {Caller, Dog} : WF_vars(Step(p, ConcKeys, ConcValues, ConcTTLs))
    /\ SF_vars(run188(Dog))

Halt == Init /\ [][HaltNext]_vars /\ HaltFair

\* One caller on a single key whose callbacks may call Add on the cache.
ReloadNext ==
    \/ Tick
    \/ Call(Caller, Ops, MaxCalls)
    \/ Step(Caller, ConcKeys, ConcValues, ConcTTLs)
    \/ cb141(Caller)

Reload == Init /\ [][ReloadNext]_vars

(* ------------------------------------------------------------ properties *)
\* Len(): the number of stored entries
Size == IF cache.nil \/ dl.nil THEN 0 ELSE Len(dl.items)

\* The entries of a list.
Entries(s) == {s[i] : i \in 1..Len(s)}

\* A goroutine is inside removeElement.
Removing(p) == pc[p] \in {"rem136", "rem138", "rem143"}

\* An insert has pushed its entry and is on its way to the eviction (lines
\* 83-85 and 124-126): the only steps at which one entry too many is expected.
Evicting(p) == local[p].op \in AddOps /\ pc[p] \in {"add83", "add84", "rmo124"}

\* The goroutine waits at line 127 for the lock it took itself at line 65.
SelfLocked(p) == pc[p] = "rmo127" /\ lock = p

\* What the callbacks have been invoked with once kv's callback, when it has one,
\* has been called with kv's key and value after the invocations f0.
FiredFor(f0, kv) ==
    IF kv.OnEvicted = NoCb THEN f0
    ELSE [f0 EXCEPT ![kv.OnEvicted] = f0[kv.OnEvicted] \o <<<<kv.key, kv.value>>>>]

\* kv's expiration is set and has passed at time t.
Passed(kv, t) == kv.Expiration # 0 /\ t > kv.Expiration

\* C1: with MaxEntries > 0 the store never holds more than MaxEntries entries,
\* but for the steps of an insert between pushing its entry and evicting one.
CapacityBound ==
    Size > MaxEntries => \E p \in Procs : Evicting(p)

\* C2: no call is stopped for good: a goroutine inside a call never waits for a
\* lock it holds itself, so every call can go on to return and release the lock.
CallsCanReturn ==
    \A p \in Procs : ~SelfLocked(p)

\* C3: an insert of a fresh key that pushed the size above MaxEntries ends, when
\* it has returned or can go no further, with exactly the least recently used
\* entry (the back of the list before the insert) evicted and the new entry at
\* the front.
EvictsLeastRecentlyUsed ==
    \A p \in Procs :
        local[p].inAdd /\ (pc[p] = "done" \/ SelfLocked(p)) =>
            /\ local[p].before # <<>>
            /\ dl.items = <<local[p].ele>>
                            \o SubSeq(local[p].before, 1, Len(local[p].before) - 1)

\* C4: Get never returns an expired entry.  A Get that found its key with the
\* expiration passed removed the entry from the list and the map, called its
\* callback (if any) once with its key and value, and reports (zero, false); a
\* Get that found its key not expired, in particular without expiration,
\* reports its value with ok = true; a Get that did not find its key reports
\* (zero, false).
LazyExpiration ==
    \A p \in Procs :
        pc[p] = "done" /\ local[p].op = "Get" =>
            LET l == local[p] IN
            /\ l.hit /\ Passed(l.ele, l.t) =>
                  /\ ~l.ok /\ l.value = 0
                  /\ ~Lookup(cache, l.key) /\ ~Has(dl.items, l.key)
                  /\ dl.items = Without(l.before, l.key)
                  /\ fired = FiredFor(l.fired0, l.ele)
            /\ l.hit /\ ~Passed(l.ele, l.t) =>
                  /\ l.ok /\ l.value = l.ele.value
                  /\ Lookup(cache, l.key) /\ cache.m[l.key] = l.ele
                  /\ fired = l.fired0
            /\ ~l.hit => ~l.ok /\ l.value = 0 /\ fired = l.fired0

\* C4, its case: a Get has found an expired entry that has a callback beside an
\* entry without expiration, which is still stored.
LazyExpirationWitness ==
    \E p \in Procs :
        /\ pc[p] = "done" /\ local[p].op = "Get"
        /\ local[p].hit /\ Passed(local[p].ele, local[p].t)
        /\ local[p].ele.OnEvicted # NoCb
        /\ \E kv \in Entries(dl.items) : kv.Expiration = 0

\* C5: a callback is invoked at most once, and once it has been invoked no
\* stored entry carries it; removeElement runs with the lock held; every entry
\* a call has removed (by Remove, RemoveOldest, an expired Get, DeleteExpired)
\* was stored when the call looked it up, and its callback, when it has one,
\* has been invoked exactly once, with the entry's key and the value it then had.
CallbackOnce ==
    /\ \A c \in 1..MaxCb :
          /\ Len(fired[c]) <= 1
          /\ fired[c] # <<>> =>
                /\ \A kv \in Entries(dl.items) : kv.OnEvicted # c
                /\ \A k \in DOMAIN cache.m : cache.m[k].OnEvicted # c
    /\ \A p \in Procs :
          /\ Removing(p) => lock = p
          /\ \A kv \in local[p].gone :
                /\ kv \in Entries(local[p].before)
                /\ kv.OnEvicted # NoCb => fired[kv.OnEvicted] = <<<<kv.key, kv.value>>>>
          /\ pc[p] = "done" /\ local[p].hit
               /\ local[p].op \in {"Remove", "RemoveOldest"} =>
                  /\ local[p].gone = {local[p].ele}
                  /\ fired = FiredFor(local[p].fired0, local[p].ele)

\* C5, its case: a Remove has removed an entry that has a callback, which has
\* been invoked.
CallbackOnceWitness ==
    \E p \in Procs :
        /\ pc[p] = "done" /\ local[p].op = "Remove" /\ local[p].hit
        /\ local[p].ele.OnEvicted # NoCb
        /\ fired[local[p].ele.OnEvicted] # <<>>

\* C6: an update of an existing key through add (so through a plain Add) leaves
\* the callback of the stored entry as it was and stores the new value; and
\* removeElement calls the callback the stored entry carries with the value it
\* holds.  So the callback given at creation is the one a removal after the
\* update invokes.
CallbackPersists ==
    [][\A p \in Procs :
         /\ pc[p] = "add76" /\ pc'[p] = "done" =>
               LET k == local[p].key IN
               /\ Lookup(cache', k)
               /\ cache'.m[k].OnEvicted = cache.m[k].OnEvicted
               /\ cache'.m[k].value = local'[p].value
               /\ dl'.items[1] = cache'.m[k]
               /\ fired' = fired
         /\ pc[p] = "rem138" /\ pc'[p] = "rem143" =>
               LET k == local[p].ele.key IN
               Lookup(cache, k) => fired' = FiredFor(fired, cache.m[k])]_vars

\* C6, its case: a plain Add has given a new value to an entry created with a
\* callback.
CallbackPersistsWitness ==
    \E p \in Procs :
        /\ pc[p] = "done" /\ local[p].op = "Add" /\ local[p].hit
        /\ local[p].ele.OnEvicted # NoCb
        /\ local[p].ele.value # local[p].value
        /\ cache.m[local[p].key].OnEvicted = local[p].ele.OnEvicted

\* C7: when Clear has returned the list and the map are nil and Clear has
\* invoked no callback; on the cleared cache Len is 0, Get reports (zero,
\* false), Remove, RemoveOldest and DeleteExpired return having changed and
\* invoked nothing, and no call panics; a callback is only invoked for an entry
\* the map holds at that moment, so never for a discarded one; an insert that
\* finds the cache cleared leaves a store holding its entry alone.
ClearSilent ==
    \A p \in Procs :
        LET l == local[p] IN
        /\ pc[p] # "panic"
        /\ pc[p] = "done" /\ l.op = "Clear" =>
              cache.nil /\ dl.nil /\ Size = 0 /\ fired = l.fired0
        /\ pc[p] = "done" /\ l.op = "Len" => l.n = Size
        /\ pc[p] = "done" /\ cache.nil
             /\ l.op \in {"Get", "Remove", "RemoveOldest", "DeleteExpired"} =>
              /\ dl.nil /\ fired = l.fired0 /\ l.gone = {}
              /\ ~l.hit /\ ~l.ok /\ l.value = 0
        /\ pc[p] = "rem138" =>
              Lookup(cache, l.ele.key) /\ cache.m[l.ele.key] = l.ele
        /\ pc[p] = "done" /\ l.op \in AddOps /\ l.wasNil =>
              /\ ~cache.nil /\ ~dl.nil
              /\ Len(dl.items) = 1
              /\ dl.items[1].key = l.key /\ dl.items[1].value = l.value
              /\ dl.items[1].OnEvicted = l.onEvicted
              /\ DOMAIN cache.m = {l.key} /\ cache.m[l.key] = dl.items[1]
              /\ fired = l.fired0

\* C7, its case: the third call, an insert, has stored its entry in a fresh
\* store after an AddExWithOnEvicted and a Clear that discarded its entry, whose
\* callback was not invoked.
ClearSilentWitness ==
    \E p \in Procs :
        /\ pc[p] = "done" /\ local[p].op \in AddOps /\ local[p].wasNil
        /\ calls = 3 /\ ncb = 1 /\ local[p].onEvicted = NoCb /\ fired[1] = <<>>

\* C8: the lock linearizes the operations: while a goroutine holds the lock,
\* the list and the map change only by that goroutine's own steps.
LockGuardsStore ==
    [][\A p \in Procs :
         lock = p /\ (dl' # dl \/ cache' # cache) => pc'[p] # pc[p]]_vars

\* C9: a sweep never fails: DeleteExpired, called directly or by the watchDog,
\* never draws its count from an empty range (rand.Intn(0), a panic) and never
\* panics otherwise.
SweepNeverFails ==
    \A p \in Procs :
        local[p].op = "DeleteExpired" => pc[p] # "panic" /\ local[p].err # "Intn"

\* C10: a DeleteExpired call draws its count from 1..Len() and examines at most
\* that many entries; every entry it has removed was stored when it began, has
\* an expiration set and passed at the time of the sweep; between its rounds and
\* when it returns, the list holds the entries it held before, but the removed
\* ones, with their values and in their order, and the map holds the same.
SweepBounded ==
    \A p \in Procs :
        local[p].op = "DeleteExpired" =>
            LET l == local[p] IN
            /\ l.count >= 0 /\ l.examined + l.count <= l.n
            /\ l.n > 0 => l.examined + l.count >= 1
            /\ Cardinality(l.gone) <= l.examined
            /\ \A kv \in l.gone : kv \in Entries(l.before) /\ Passed(kv, l.t)
            /\ pc[p] \in {"de154", "done"} =>
                  /\ l.n = Len(l.before)
                  /\ dl.items = SelectSeq(l.before, LAMBDA x : x \notin l.gone)
                  /\ Range(cache.m) = Entries(dl.items)
                  /\ \A k \in DOMAIN cache.m : cache.m[k].key = k

\* C10, its case: a sweep has examined two entries, removed an expired one and
\* left one that never expires.
SweepBoundedWitness ==
    \E p \in Procs :
        /\ pc[p] = "done" /\ local[p].op = "DeleteExpired"
        /\ local[p].examined = 2 /\ local[p].gone # {}
        /\ \E kv \in Entries(dl.items) : kv.Expiration = 0

\* C11: a stop signal sent to the watchDog is eventually received (after which
\* run has returned: the sweep in progress has completed and no other starts).
StopIsReceived ==
    (stop = "sending") ~> (stop = "received" /\ pc[Dog] = "stopped")

\* The entries the list or the map holds.
Stored == Entries(dl.items) \cup Range(cache.m)

\* C12: AddExWithOnEvicted on a key that exists leaves the entry at the front
\* with the new value and the expiration computed from d, and with the callback
\* it had (or none): the supplied callback is attached to no entry and has not
\* been invoked; and a step invokes a callback only if a stored entry carries
\* it, with that entry's key and value, so the supplied one is never invoked.
UpdateAttachesNoCallback ==
    [][/\ \A p \in Procs :
            pc'[p] = "done" /\ pc[p] # "done" /\ local'[p].hit
              /\ local'[p].op = "AddExWithOnEvicted" =>
                LET l == local'[p]
                    x == entry(l.key, l.value, IF l.n > 0 THEN l.t + l.n ELSE 0,
                               l.ele.OnEvicted)
                IN /\ cache'.m[l.key] = x
                   /\ dl'.items = <<x>> \o Without(l.before, l.key)
                   /\ l.onEvicted # NoCb /\ l.onEvicted # l.ele.OnEvicted
                   /\ \A kv \in Stored' : kv.OnEvicted # l.onEvicted
                   /\ fired' = fired /\ fired[l.onEvicted] = <<>>
       /\ \A c \in 1..MaxCb :
            fired'[c] # fired[c] =>
                \E kv \in Stored :
                    kv.OnEvicted = c /\ fired'[c] = fired[c] \o <<<<kv.key, kv.value>>>>
      ]_vars

\* C12, its case: AddExWithOnEvicted with a second callback has given a new
\* value to an existing entry that was created with a first callback and was not
\* at the front, and has moved it there.
UpdateAttachesNoCallbackWitness ==
    \E p \in Procs :
        /\ pc[p] = "done" /\ local[p].op = "AddExWithOnEvicted" /\ local[p].hit
        /\ local[p].ele.OnEvicted # NoCb
        /\ local[p].ele.value # local[p].value
        /\ local[p].before[1].key # local[p].key
        /\ dl.items[1].key = local[p].key

\* C13: a Remove of a key the map does not hold (or on a nil map) takes no step
\* that changes the list, the map or the callbacks' invocations, does not
\* panic, and returns with the lock free: the state after it is the state
\* before it, however often it is repeated.
RemoveAbsentIsNoOp ==
    [][\A p \in Procs :
         local'[p].op = "Remove" /\ pc'[p] # pc[p] /\ pc[p] \in {"rm113", "rm116"}
           /\ (pc[p] = "rm116" => ~Lookup(cache, local'[p].key)) =>
             /\ dl' = dl /\ cache' = cache /\ fired' = fired
             /\ ~local'[p].hit /\ local'[p].gone = {}
             /\ pc'[p] \in {"rm116", "done"}
             /\ pc'[p] = "done" => lock' = Free
      ]_vars

\* C13, its case: a Remove of an absent key has returned with two entries
\* stored, one of them carrying a callback.
RemoveAbsentIsNoOpWitness ==
    \E p \in Procs :
        /\ pc[p] = "done" /\ local[p].op = "Remove" /\ ~local[p].hit
        /\ ~local[p].wasNil /\ ~Lookup(cache, local[p].key)
        /\ Len(dl.items) = 2 /\ dl.items = local[p].before
        /\ \E kv \in Entries(dl.items) : kv.OnEvicted # NoCb

\* C14: the entry an insert leaves at the front has expiration now + d when
\* d > 0 and none (0) when d <= 0, as with Add; Get and DeleteExpired remove an
\* entry only if its expiration is set and the time they read is strictly
\* greater than it, and a Get that finds such an entry does remove it; so an
\* entry without expiration is never removed as expired.
NeverExpiresWithoutTTL ==
    \A p \in Procs :
        LET l == local[p] IN
        /\ l.op \in AddOps /\ pc[p] \in {"add83", "add84", "rmo124", "rmo127", "done"} =>
              /\ dl.items[1].key = l.key
              /\ dl.items[1].Expiration = (IF l.n > 0 THEN l.t + l.n ELSE 0)
              /\ l.op = "Add" => dl.items[1].Expiration = 0
        /\ l.op \in {"Get", "DeleteExpired"} =>
              /\ \A kv \in l.gone : kv.Expiration > 0 /\ l.t > kv.Expiration
              /\ Removing(p) => l.ele.Expiration > 0 /\ l.t > l.ele.Expiration
        /\ l.op = "Get" /\ pc[p] = "done" /\ l.hit =>
              /\ l.gone = (IF l.ele.Expiration > 0 /\ l.t > l.ele.Expiration
                           THEN {l.ele} ELSE {})
              /\ l.ok = (l.gone = {})

\* C14, its case: at the last instant of the clock a Get has found an entry
\* without expiration beside one whose expiration is that very instant, and
\* both are still stored.
NeverExpiresWithoutTTLWitness ==
    \E p \in Procs :
        /\ pc[p] = "done" /\ local[p].op = "Get" /\ local[p].ok
        /\ local[p].ele.Expiration = 0 /\ local[p].t = MaxTime
        /\ \E kv \in Entries(dl.items) : kv.Expiration = MaxTime

\* C15: an Add on a key that exists returns from the update path, without going
\* on to evict; the list is then the entry with the new value, no expiration
\* and its callback unchanged at the front, followed by the other entries as
\* they were; the map holds the same keys; no callback has been invoked.
AddUpdatesInPlace ==
    \A p \in Procs :
        LET l == local[p] IN
        l.op = "Add" /\ l.hit =>
            /\ pc[p] \in {"add76", "done"} /\ ~l.inAdd
            /\ pc[p] = "done" =>
                  LET x == entry(l.key, l.value, 0, l.ele.OnEvicted) IN
                  /\ dl.items = <<x>> \o Without(l.before, l.key)
                  /\ Len(dl.items) = Len(l.before)
                  /\ cache.m[l.key] = x
                  /\ DOMAIN cache.m = {kv.key : kv \in Entries(l.before)}
                  /\ \A k \in DOMAIN cache.m : cache.m[k] \in Entries(dl.items)
                  /\ fired = l.fired0 /\ l.gone = {}
                  /\ lock = Free

\* C15, its case: with the cache at capacity an Add has given a new value to
\* the least recently used entry, which had an expiration.
AddUpdatesInPlaceWitness ==
    \E p \in Procs :
        /\ pc[p] = "done" /\ local[p].op = "Add" /\ local[p].hit
        /\ Len(local[p].before) = MaxEntries
        /\ local[p].before[MaxEntries].key = local[p].key
        /\ local[p].ele.Expiration > 0
        /\ local[p].ele.value # local[p].value

\* No goroutine is inside a call.
Quiet == \A p \in Procs : pc[p] \in {"idle", "done", "stopped"}

\* The map and the list describe the same entries: the keys of the map are the
\* keys in the list, each at one position, each key of the map maps to the
\* entry at that position, and Len() is the number of keys.
Consistent ==
    /\ DOMAIN cache.m = {kv.key : kv \in Entries(dl.items)}
    /\ \A i, j \in 1..Len(dl.items) : dl.items[i].key = dl.items[j].key => i = j
    /\ \A k \in DOMAIN cache.m : cache.m[k].key = k /\ cache.m[k] \in Entries(dl.items)
    /\ Size = Cardinality(DOMAIN cache.m)

\* C16: whenever no call is in progress the map and the list describe the same
\* entries.
StoreConsistent == Quiet => Consistent

\* C17: when the callback of the entry an expired Get removes reinserts the
\* key by calling Add, Get goes on to its second lookup and returns: the Add
\* the callback called never waits at line 65 for the lock that its own
\* goroutine, inside Get, holds.
GetReturnsReloaded ==
    \A p \in Procs :
        local[p].op = "Get" /\ local[p].nested => ~(pc[p] = "add65" /\ lock = p)

ClearBreaksNoCall ==
    \A p \in Procs : local[p].err \notin {"nil list", "nil map"}

\* C20: Get returns the value of the most recent insert of its key.  Step by
\* step: the map comes to hold a key, or another entry under a key, only by an
\* insert of that key, and then with the value that insert was given; every
\* insert leaves the map holding its key with its value; and a Get that
\* returns ok = true returns the value of the entry the map holds under its
\* key, an entry with that key, not expired when Get read the time, and still
\* stored when Get returns (so not removed, evicted or cleared).
GetReturnsLatest ==
    [][/\ \A k \in Keys :
            Lookup(cache', k) /\ (~Lookup(cache, k) \/ cache'.m[k] # cache.m[k]) =>
                \E p \in Procs :
                    /\ pc[p] \in {"add76", "add83"} /\ pc'[p] # pc[p]
                    /\ local'[p].key = k /\ cache'.m[k].key = k
                    /\ cache'.m[k].value = local'[p].value
       /\ \A p \in Procs :
            /\ pc[p] \in {"add76", "add83"} /\ pc'[p] \notin {pc[p], "panic"} =>
                  /\ Lookup(cache', local'[p].key)
                  /\ cache'.m[local'[p].key].value = local'[p].value
            /\ pc'[p] = "done" /\ pc[p] # "done" /\ local'[p].op = "Get"
                 /\ local'[p].ok =>
                  LET k == local'[p].key IN
                  /\ Lookup(cache, k) /\ Lookup(cache', k)
                  /\ cache.m[k].key = k
                  /\ local'[p].value = cache.m[k].value
                  /\ ~(cache.m[k].Expiration # 0 /\ local'[p].t > cache.m[k].Expiration)
      ]_vars

\* C20, its case: a Get has returned value 2 for its key, found behind the
\* entry of another key that holds value 1.
GetReturnsLatestWitness ==
    \E p \in Procs :
        /\ pc[p] = "done" /\ local[p].op = "Get" /\ local[p].ok
        /\ local[p].value = 2
        /\ Len(local[p].before) = 2
        /\ local[p].before[1].value = 1 /\ local[p].before[2].key = local[p].key

====
